---- MODULE Spec2Model ----
(***************************************************************************)
(* auto-port-config: one invocation of the script for one interface.       *)
(*                                                                         *)
(* A Python string is modelled as a sequence of pieces.  The pieces of a   *)
(* hardware address or pattern are its characters; the pieces of a         *)
(* configuration line or command are its words and its blanks, so that     *)
(* replace(), strip(), lower(), slicing, split() and list concatenation    *)
(* are computed piece by piece the way the interpreter computes them       *)
(* character by character.  String equality is Python 2's, the             *)
(* interpreter the script addresses its str/unicode handling to: a         *)
(* UTF-8 encoded byte string equals a text string when both hold the same  *)
(* ASCII text.  All text of the model is ASCII.                            *)
(***************************************************************************)
EXTENDS Integers, Sequences, FiniteSets, TLC

VARIABLES
    inter,           \* options.inter: the interface given with -i
    configFile,      \* the rule file: whether it parses, and what it parses to
    macTable,        \* switch: macAddress of the interface's address-table entries
    runningConfig,   \* switch: text of "show running-config interfaces <inter>"
    pc,              \* the call of main() that is next
    status,          \* how the invocation ended, "running" until it has
    specificConfig,  \* main's specificConfig: index of the rule in configs, 0 for None
    sent,            \* the requests handed to switch.runCmds by this invocation
    output,          \* response[1]["output"] of the running-config read
    invocation,      \* "first", or "following" for an invocation after the first
    previous         \* status the invocation before this one ended with

vars == <<inter, configFile, macTable, runningConfig, pc, status,
          specificConfig, sent, output, invocation, previous>>

----------------------------------------------------------------------------
(* Bounds of the model *)

MaxRules == 3        \* rules in a rule table
MaxAddrs == 2        \* addresses learned on the interface
MaxLines == 2        \* lines of a rule's config
MaxLive == 2         \* lines of the running-config dump under its first line

----------------------------------------------------------------------------
(* Python values *)

None == 0

SeqsUpTo(S, n) == UNION {[1..k -> S] : k \in 0..n}

Whitespace == {" ", "\t", "\r"}

NL == "\n"

\* str.replace(old, '') for a one-character old
Replace(s, old) == SelectSeq(s, LAMBDA c : c # old)

RECURSIVE LStrip(_)
LStrip(s) == IF s # <<>> /\ Head(s) \in Whitespace THEN LStrip(Tail(s)) ELSE s

RECURSIVE RStrip(_)
RStrip(s) ==
    IF s # <<>> /\ s[Len(s)] \in Whitespace
    THEN RStrip(SubSeq(s, 1, Len(s) - 1))
    ELSE s

\* str.strip()
Strip(s) == RStrip(LStrip(s))

LowerChar(c) ==
    CASE c = "A" -> "a" [] c = "B" -> "b" [] c = "C" -> "c"
      [] c = "D" -> "d" [] c = "E" -> "e" [] c = "F" -> "f"
      [] OTHER -> c

\* str.lower()
Lower(s) == [i \in DOMAIN s |-> LowerChar(s[i])]

\* s[0:n]
Slice0(s, n) == SubSeq(s, 1, IF Len(s) < n THEN Len(s) ELSE n)

\* str.split("\n"): the pieces between the newlines, empty ones included
RECURSIVE SplitFrom(_, _, _)
SplitFrom(text, cur, acc) ==
    IF text = <<>> THEN Append(acc, cur)
    ELSE IF Head(text) = NL THEN SplitFrom(Tail(text), <<>>, Append(acc, cur))
    ELSE SplitFrom(Tail(text), Append(cur, Head(text)), acc)

Split(text) == SplitFrom(text, <<>>, <<>>)

\* "\n".join(lines)
RECURSIVE Join(_)
Join(lines) ==
    IF lines = <<>> THEN <<>>
    ELSE IF Len(lines) = 1 THEN lines[1]
    ELSE lines[1] \o <<NL>> \o Join(Tail(lines))

\* unicode.encode("utf-8"): a byte string; of ASCII text, the same code units
Utf8Encode(s) == [type |-> "str", bytes |-> s]

\* Python 2: str == unicode coerces the byte string as ASCII
PyEqual(b, u) == b.type = "str" /\ b.bytes = u

\* set(a) == set(b) for a list of byte strings and a list of text strings
SetEqual(a, b) ==
    /\ \A i \in DOMAIN a : \E j \in DOMAIN b : PyEqual(a[i], b[j])
    /\ \A j \in DOMAIN b : \E i \in DOMAIN a : PyEqual(a[i], b[j])

\* del l[:1]
DelFirst(l) == IF l = <<>> THEN <<>> ELSE Tail(l)

----------------------------------------------------------------------------
(* clean_mac_address *)

clean_mac_address(mac) ==
    Lower(Strip(Replace(Replace(Replace(mac, ":"), "."), "-")))

----------------------------------------------------------------------------
(* check_interface_macs: the search of the rule table *)

Star == <<"*">>

\* specificMatch is returned as soon as it is found: returned, value
NoMatch == [returned |-> FALSE, value |-> None,
            ouiMatch |-> None, defaultMatch |-> None]

InterfaceOUI_5(mac_address) == Slice0(mac_address, 5)

\* interfaceOUI = mac_address[0:6]
InterfaceOUI(mac_address) == Slice0(mac_address, 6)

MatchMac_FirstWins(m, k, rawmac, mac_address, interfaceOUI) ==
    LET mac == clean_mac_address(rawmac)
        d == IF mac = Star /\ m.defaultMatch = None
             THEN [m EXCEPT !.defaultMatch = k] ELSE m
        o == IF interfaceOUI = mac /\ d.ouiMatch = None
             THEN [d EXCEPT !.ouiMatch = k] ELSE d
    IN  IF mac_address = mac
        THEN [o EXCEPT !.returned = TRUE, !.value = k]
        ELSE o

\* the body of "for mac in config['macs']" for the rule at index k
MatchMac(m, k, rawmac, mac_address, interfaceOUI) ==
    LET mac == clean_mac_address(rawmac)
        d == IF mac = Star THEN [m EXCEPT !.defaultMatch = k] ELSE m
        o == IF interfaceOUI = mac THEN [d EXCEPT !.ouiMatch = k] ELSE d
    IN  IF mac_address = mac
        THEN [o EXCEPT !.returned = TRUE, !.value = k]
        ELSE o

\* for mac in config['macs'], from the pattern at index j on
RECURSIVE ScanMacs(_, _, _, _, _, _)
ScanMacs(m, macs, j, k, mac_address, interfaceOUI) ==
    IF m.returned \/ j > Len(macs) THEN m
    ELSE ScanMacs(MatchMac(m, k, macs[j], mac_address, interfaceOUI),
                  macs, j + 1, k, mac_address, interfaceOUI)

\* for config in configs['configs'], from the rule at index k on
RECURSIVE ScanConfigs(_, _, _, _, _)
ScanConfigs(m, configs, k, mac_address, interfaceOUI) ==
    IF m.returned \/ k > Len(configs) THEN m
    ELSE ScanConfigs(ScanMacs(m, configs[k].macs, 1, k, mac_address, interfaceOUI),
                     configs, k + 1, mac_address, interfaceOUI)

ReturnMatch_DefaultFirst(m) ==
    IF m.defaultMatch # None THEN m.defaultMatch ELSE m.ouiMatch

\* if ouiMatch != None: return ouiMatch / else: return defaultMatch
ReturnMatch(m) ==
    IF m.ouiMatch # None THEN m.ouiMatch ELSE m.defaultMatch

RECURSIVE ForMacAddress(_, _, _)

AfterScan_Dedented(m, rest, configs) ==
    IF rest = <<>> THEN ReturnMatch(m) ELSE ForMacAddress(rest, configs, m)

\* the return statement stands inside "for mac_address in ...": the
\* entries after this one (rest) are never looked at
AfterScan(m, rest, configs) == ReturnMatch(m)

\* for mac_address in response[1]['unicastTable']['tableEntries']
ForMacAddress(tableEntries, configs, m) ==
    IF tableEntries = <<>> THEN None
    ELSE LET mac_address == clean_mac_address(Head(tableEntries))
             s == ScanConfigs(m, configs, 1, mac_address, InterfaceOUI(mac_address))
         IN  IF s.returned THEN s.value
             ELSE AfterScan(s, Tail(tableEntries), configs)

check_interface_macs(tableEntries, configs) ==
    ForMacAddress(tableEntries, configs, NoMatch)

----------------------------------------------------------------------------
(* check_interface_config: the comparison with the running configuration *)

check_interface_config_NoDel(dump, desired) ==
    LET split == Split(dump)
        kept == SelectSeq(split, LAMBDA line : line # <<>>)
        config == [i \in DOMAIN kept |-> Utf8Encode(Strip(kept[i]))]
    IN  SetEqual(config, desired)

\* dump is response[1]["output"], desired is _int_config['config']
check_interface_config(dump, desired) ==
    LET split == Split(dump)
        kept == SelectSeq(split, LAMBDA line : line # <<>>)
        config == [i \in DOMAIN kept |-> Utf8Encode(Strip(kept[i]))]
    IN  SetEqual(DelFirst(config), desired)

----------------------------------------------------------------------------
(* the commands *)

Enable == <<"enable">>

ShowMacAddressTable(_interface) ==
    <<"show", " ", "mac", " ", "address-table", " ", "interface", " ">> \o _interface

ShowRunningConfig(_interface) ==
    <<"show", " ", "running-config", " ", "interfaces", " ", " ">> \o _interface

DefaultInterface(_interface) == <<"default", " ", "interface", " ">> \o _interface

Interface(_interface) == <<"interface", " ">> \o _interface

config_interface_Swapped(config, _interface) ==
    <<<<"configure">>, Interface(_interface), DefaultInterface(_interface)>> \o config

\* the list handed to runCMD by config_interface
config_interface(config, _interface) ==
    <<<<"configure">>, DefaultInterface(_interface), Interface(_interface)>> \o config

runCMD_NoQuit(_cmd, _format, ok) ==
    [request |-> [cmds |-> <<Enable>> \o _cmd, format |-> _format, ok |-> ok],
     quit |-> FALSE]

\* ok: whether switch.runCmds returns; when it raises, runCMD quits
runCMD(_cmd, _format, ok) ==
    [request |-> [cmds |-> <<Enable>> \o _cmd, format |-> _format, ok |-> ok],
     quit |-> ~ok]

\* the switch, having run a batch of config_interface: the interface's
\* dump is its "interface <name>" line and the lines entered under it
SwitchApply(cmds) == Join(SubSeq(cmds, 4, Len(cmds)))

----------------------------------------------------------------------------
(* main *)

AfterCompare_AlwaysPush(same) == "config_interface"

\* if check_interface_config(...): quit()
AfterCompare(same) == IF same THEN "exit" ELSE "config_interface"

ParseConfigFile ==
    /\ pc = "parse_config_file"
    /\ IF configFile.parses
       THEN pc' = "check_interface_macs" /\ status' = status
       ELSE pc' = "exit" /\ status' = "parse_error"
    /\ UNCHANGED <<inter, configFile, macTable, runningConfig,
                   specificConfig, sent, output, invocation, previous>>

CheckInterfaceMacs ==
    /\ pc = "check_interface_macs"
    /\ \E ok \in BOOLEAN :
         LET r == runCMD(<<ShowMacAddressTable(inter)>>, "json", ok)
             m == check_interface_macs(macTable, configFile.configs)
         IN  /\ sent' = Append(sent, r.request)
             /\ IF r.quit
                THEN pc' = "exit" /\ status' = "transport_error"
                     /\ specificConfig' = specificConfig
                ELSE /\ specificConfig' = m
                     /\ IF m = None
                        THEN pc' = "exit" /\ status' = "no_match"
                        ELSE pc' = "check_interface_config" /\ status' = status
    /\ UNCHANGED <<inter, configFile, macTable, runningConfig, output,
                   invocation, previous>>

CheckInterfaceConfig ==
    /\ pc = "check_interface_config"
    /\ \E ok \in BOOLEAN :
         LET r == runCMD(<<ShowRunningConfig(inter)>>, "text", ok)
             same == check_interface_config(runningConfig,
                         configFile.configs[specificConfig].config)
         IN  /\ sent' = Append(sent, r.request)
             /\ IF r.quit
                THEN pc' = "exit" /\ status' = "transport_error"
                     /\ output' = output
                ELSE /\ output' = runningConfig
                     /\ pc' = AfterCompare(same)
                     /\ status' = IF AfterCompare(same) = "exit"
                                  THEN "already_correct" ELSE status
    /\ UNCHANGED <<inter, configFile, macTable, runningConfig,
                   specificConfig, invocation, previous>>

ConfigInterface ==
    /\ pc = "config_interface"
    /\ \E ok \in BOOLEAN :
         LET r == runCMD(config_interface(configFile.configs[specificConfig].config,
                                          inter), "json", ok)
         IN  /\ sent' = Append(sent, r.request)
             /\ runningConfig' = IF ok THEN SwitchApply(r.request.cmds)
                                 ELSE runningConfig
             /\ pc' = "exit"
             /\ status' = IF r.quit THEN "transport_error" ELSE "configured"
    /\ UNCHANGED <<inter, configFile, macTable, specificConfig, output,
                   invocation, previous>>

\* the event handler calls the script again for the same interface
Invoke ==
    /\ pc = "exit"
    /\ invocation = "first"
    /\ invocation' = "following"
    /\ previous' = status
    /\ pc' = "parse_config_file"
    /\ status' = "running"
    /\ specificConfig' = None
    /\ sent' = <<>>
    /\ output' = <<>>
    /\ UNCHANGED <<inter, configFile, macTable, runningConfig>>

----------------------------------------------------------------------------
(* Inputs *)

A1 == <<"a","a",":","b","b",":","c","c",":","1","1",":","2","2",":","3","3">>
A2 == <<"a","a","b","b",".","c","c","4","4",".","5","5","6","6">>
A3 == <<"d","d",":","e","e",":","f","f",":","0","0",":","0","0",":","0","1">>
A4 == <<"A","A","-","B","B","-","C","C">>

Addresses == {A1, A2, A3, A4}

OuiA == <<"A","A",":","B","B",":","C","C">>
OuiD == <<"d","d","-","e","e","-","f","f">>
ExactA1 == <<"a","a","b","b",".","c","c","1","1",".","2","2","3","3">>
ExactA2 == <<" ","A","A","-","B","B","-","C","C","-","4","4","-","5","5","-","6","6">>

\* the macs lists of the rules
MacLists ==
    { <<Star>>, <<OuiA>>, <<ExactA1>>, <<Star, OuiA>>, <<ExactA2, OuiD>> }

Trunk == <<"switchport", " ", "mode", " ", "trunk">>
Access == <<"switchport", " ", "mode", " ", "access">>
Indent == <<" ", " ", " ">>

Ethernet1 == <<"Ethernet1">>

\* lines of a rule's config
DesiredLines == {Trunk, Access, Indent \o Trunk, <<>>}

\* lines of a running-config dump under its "interface <name>" line
LiveLines == {Indent \o Trunk, Indent \o Access, Trunk, Indent, <<>>}

Start ==
    /\ pc = "parse_config_file"
    /\ status = "running"
    /\ specificConfig = None
    /\ sent = <<>>
    /\ output = <<>>
    /\ invocation = "first"
    /\ previous = "none"

\* one rule, every config and every dump within the bounds
Init ==
    /\ inter = Ethernet1
    /\ configFile \in
         {[parses |-> FALSE, configs |-> <<>>]} \cup
         {[parses |-> TRUE, configs |-> <<[macs |-> m, config |-> d]>>] :
            m \in {<<Star>>, <<ExactA1>>}, d \in SeqsUpTo(DesiredLines, MaxLines)}
    /\ macTable \in {<<>>, <<A1>>, <<A3>>}
    /\ runningConfig \in
         {<<>>} \cup
         {Join(<<Interface(Ethernet1)>> \o l) : l \in SeqsUpTo(LiveLines, MaxLive)}
    /\ Start

\* every rule table and every address table within the bounds
InitResolve ==
    /\ inter = Ethernet1
    /\ configFile \in
         {[parses |-> TRUE,
           configs |-> [k \in DOMAIN t |-> [macs |-> t[k], config |-> <<Trunk>>]]] :
            t \in SeqsUpTo(MacLists, MaxRules)}
    /\ macTable \in SeqsUpTo(Addresses, MaxAddrs)
    /\ runningConfig = Join(<<Interface(Ethernet1)>>)
    /\ Start

NextOnce ==
    \/ ParseConfigFile
    \/ CheckInterfaceMacs
    \/ CheckInterfaceConfig
    \/ ConfigInterface

Next == NextOnce \/ Invoke

Spec == Init /\ [][Next]_vars

\* main up to the return of check_interface_macs
NextResolve ==
    \/ ParseConfigFile
    \/ CheckInterfaceMacs

SpecResolve == InitResolve /\ [][NextResolve]_vars

TypeOK ==
    /\ pc \in {"parse_config_file", "check_interface_macs",
               "check_interface_config", "config_interface", "exit"}
    /\ status \in {"running", "parse_error", "no_match", "already_correct",
                   "configured", "transport_error"}
    /\ specificConfig \in 0..Len(configFile.configs)
    /\ Len(sent) <= 3

----------------------------------------------------------------------------
(* The vocabulary of the properties: the normalizer, the match classes and *)
(* the cleaned dump, stated without the operators of the code above.       *)

Delimiters == {":", ".", "-"}

Max(S) == CHOOSE x \in S : \A y \in S : x >= y

\* the index of the first piece of s from i on that is not whitespace
RECURSIVE Solid(_, _, _)
Solid(s, i, step) ==
    IF i < 1 \/ i > Len(s) THEN i
    ELSE IF s[i] \in Whitespace THEN Solid(s, i + step, step) ELSE i

\* the text between the first and the last piece that is not whitespace
Trim(s) ==
    LET lo == Solid(s, 1, 1)
        hi == Solid(s, Len(s), -1)
    IN  [i \in 1..(hi - lo + 1) |-> s[lo + i - 1]]

UpperHex == {"A", "B", "C", "D", "E", "F"}
LowerHex == [c \in UpperHex |->
               IF c = "A" THEN "a" ELSE IF c = "B" THEN "b" ELSE IF c = "C" THEN "c"
               ELSE IF c = "D" THEN "d" ELSE IF c = "E" THEN "e" ELSE "f"]

normalize(addr) ==
    LET t == Trim(SelectSeq(addr, LAMBDA c : c \notin Delimiters))
    IN  [i \in DOMAIN t |-> IF t[i] \in UpperHex THEN LowerHex[t[i]] ELSE t[i]]

\* the first 6 characters (all of them when there are fewer)
Prefix6(n) == [i \in 1..(IF Len(n) < 6 THEN Len(n) ELSE 6) |-> n[i]]

Rules == configFile.configs

\* the normalized patterns of every rule
Patterns ==
    [k \in DOMAIN Rules |->
        {normalize(Rules[k].macs[j]) : j \in DOMAIN Rules[k].macs}]

\* the rules that hold an exact, an OUI or a wildcard pattern for address a
Holders(a) ==
    LET pats == Patterns
        n == normalize(a)
        oui == Prefix6(n)
    IN  [exact |-> {k \in DOMAIN Rules : n \in pats[k]},
         oui |-> {k \in DOMAIN Rules : oui \in pats[k]},
         star |-> {k \in DOMAIN Rules : <<"*">> \in pats[k]}]

ExactHolders(a) == Holders(a).exact
Matching(a) == LET h == Holders(a) IN h.exact \cup h.oui \cup h.star

First == macTable[1]

\* check_interface_macs has returned to main in this invocation
Resolved ==
    \/ pc \in {"check_interface_config", "config_interface"}
    \/ status \in {"no_match", "already_correct", "configured"}
    \/ status = "transport_error" /\ Len(sent) >= 2

\* check_interface_config has returned to main in this invocation
Compared ==
    \/ pc = "config_interface"
    \/ status \in {"already_correct", "configured"}
    \/ status = "transport_error" /\ Len(sent) = 3

Desired == {Rules[specificConfig].config[j] :
              j \in DOMAIN Rules[specificConfig].config}

\* the lines of a dump but its first one, as they stand in the dump
RawRest(dump) ==
    LET lines == Split(dump) IN {lines[i] : i \in 2..Len(lines)}

\* the lines of a dump that are not empty, trimmed, but the first of them
CleanedRest(dump) ==
    LET lines == Split(dump)
        kept == {i \in DOMAIN lines : lines[i] # <<>>}
    IN  {Trim(lines[i]) : i \in {j \in kept : \E f \in kept : f < j}}

AddressTableRead(r) == r.cmds = <<Enable, ShowMacAddressTable(inter)>>
RunningConfigRead(r) == r.cmds = <<Enable, ShowRunningConfig(inter)>>
ApplyWrite(r) == ~AddressTableRead(r) /\ ~RunningConfigRead(r)

Kind(r) ==
    IF AddressTableRead(r) THEN "address-table read"
    ELSE IF RunningConfigRead(r) THEN "running-config read"
    ELSE "apply write"

Trace == [i \in DOMAIN sent |-> Kind(sent[i])]

TransportNeverFailed == \A i \in DOMAIN sent : sent[i].ok

----------------------------------------------------------------------------
(* Properties *)

\* C1 (as stated): if the normalized form of any learned address, at any
\* position of the sequence, equals a pattern of rule R and R is the only
\* rule with such an exact pattern, check_interface_macs returns R.
C1_ExactMatchAtAnyPosition ==
    Resolved =>
        LET exact == UNION {ExactHolders(macTable[i]) : i \in DOMAIN macTable}
        IN  \A k \in DOMAIN Rules : exact = {k} => specificConfig = k

C3_LastWinsWithinClass ==
    (Resolved /\ macTable # <<>>) =>
        LET h == Holders(First)
        IN  h.exact = {} =>
              /\ Cardinality(h.oui) >= 2 => specificConfig = Max(h.oui)
              /\ (h.oui = {} /\ Cardinality(h.star) >= 2)
                    => specificConfig = Max(h.star)

\* C3 witness: two rules hold the OUI, a wildcard rule stands after them
C3_Witness ==
    /\ Resolved
    /\ macTable # <<>>
    /\ LET h == Holders(First)
       IN  /\ h.exact = {}
           /\ Cardinality(h.oui) >= 2
           /\ specificConfig = Max(h.oui)
           /\ \E k \in h.star : k > specificConfig

\* C4: with no exact match for the address considered and some rule holding
\* its OUI, the rule returned holds the OUI, wherever the wildcard rules stand.
C4_OuiOutranksDefault ==
    (Resolved /\ macTable # <<>>) =>
        LET h == Holders(First)
        IN  (h.exact = {} /\ h.oui # {}) => specificConfig \in h.oui

\* C4 witness: rules holding only the wildcard stand before and after the
\* OUI rule returned
C4_Witness ==
    /\ Resolved
    /\ macTable # <<>>
    /\ LET h == Holders(First)
       IN  /\ h.exact = {}
           /\ specificConfig \in h.oui
           /\ \E k \in h.star \ h.oui : k > specificConfig
           /\ \E k \in h.star \ h.oui : k < specificConfig

C5_SetEqualityAfterOneLine ==
    Compared => (status = "already_correct" <=> RawRest(output) = Desired)

\* C5 (amended): check_interface_config returns True exactly when the set of
\* the dump's non-empty lines, each trimmed, but the first of them equals
\* the set of desired lines as they stand in the rule.
C5_SetEqualityOfCleanedLines ==
    Compared =>
        ((pc = "exit" /\ status = "already_correct") <=> CleanedRest(output) = Desired)

\* C5 witness: found equal, in another order, where the raw lines differ
C5_Witness ==
    /\ status = "already_correct"
    /\ Cardinality(Desired) = 2
    /\ RawRest(output) # Desired
    /\ Len(Split(output)) = 3
    /\ Trim(Split(output)[2]) = Rules[specificConfig].config[2]

\* C6: with the rule file parsed and no transport failure, the requests of
\* an invocation are the address-table read alone when no rule resolves,
\* the two reads when the resolved config equals the live one, and the two
\* reads followed by the apply write otherwise.
C6_PushOnlyOnMismatch ==
    (pc = "exit" /\ status # "parse_error" /\ TransportNeverFailed) =>
        Trace = IF macTable = <<>> \/ Matching(First) = {}
                THEN <<"address-table read">>
                ELSE IF CleanedRest(output) = Desired
                THEN <<"address-table read", "running-config read">>
                ELSE <<"address-table read", "running-config read", "apply write">>

\* C6 witness: an invocation that pushed, after both reads
C6_Witness ==
    /\ pc = "exit"
    /\ status = "configured"
    /\ TransportNeverFailed
    /\ Len(sent) = 3
    /\ CleanedRest(output) # {}

\* C7: the applier sends one batch: the privilege elevation first, the
\* reset of the interface before the entry into its context, then the
\* lines of the rule's config in their order and nothing after them; only
\* the fixed commands stand before the reset.
C7_ApplyBatchOrder ==
    /\ Cardinality({i \in DOMAIN sent : ApplyWrite(sent[i])}) <= 1
    /\ status = "configured" => \E i \in DOMAIN sent : ApplyWrite(sent[i])
    /\ \A i \in DOMAIN sent : ApplyWrite(sent[i]) =>
         LET c == sent[i].cmds
             R == Rules[specificConfig].config
         IN  /\ c[1] = <<"enable">>
             /\ \E r, x \in DOMAIN c :
                  /\ r < x
                  /\ c[r] = <<"default", " ", "interface", " ">> \o inter
                  /\ c[x] = <<"interface", " ">> \o inter
                  /\ Len(c) = x + Len(R)
                  /\ \A j \in 1..Len(R) : c[x + j] = R[j]
                  /\ \A j \in 1..(r - 1) : c[j] \in {<<"enable">>, <<"configure">>}

\* C7 witness: a batch with two different config lines was sent
C7_Witness ==
    /\ status = "configured"
    /\ Len(Rules[specificConfig].config) = 2
    /\ Rules[specificConfig].config[1] # Rules[specificConfig].config[2]

\* C8: a request that fails is the last request of its invocation, and the
\* invocation has ended.
C8_TransportFailureTerminal ==
    \A i \in DOMAIN sent :
        ~sent[i].ok => (i = Len(sent) /\ pc = "exit" /\ status = "transport_error")

\* C8 witness: the running-config read failed where the configs differ
C8_Witness ==
    /\ status = "transport_error"
    /\ Len(sent) = 2
    /\ ~sent[2].ok
    /\ CleanedRest(runningConfig) # Desired

\* C10 (as stated): an invocation that follows one that pushed its rule,
\* the switch reporting the lines as they were sent, sends no apply write.
C10_SecondRunDoesNotPush ==
    (invocation = "following" /\ previous = "configured") =>
        /\ pc # "config_interface"
        /\ \A i \in DOMAIN sent : ~ApplyWrite(sent[i])

====
